---- MODULE Spec2Model ----
(***************************************************************************)
(* A model of src/modules/performance.js: the SearchIndex class (inverted  *)
(* index, document store, ranked search).  Strings are sequences of        *)
(* one-character strings; scores are integers scaled by ScoreScale.        *)
(***************************************************************************)
EXTENDS Integers, Sequences, FiniteSets, TLC

VARIABLES
    documents,  \* SearchIndex.documents
    index,      \* SearchIndex.index
    result,     \* what the last call returned (<<>> for a call returning nothing)
    lastOp,     \* the last call and its arguments
    removed,    \* the ids removeDocument was called on, with no addDocument since
    before,     \* <<the state before the call>> while the last call is clear, or
                \* addDocument of a new id, or the removeDocument of that id
                \* right after it; <<>> otherwise
    asked,      \* the arguments of the last search, where they are recorded
    known,      \* whether the id of the last addDocument or removeDocument was
                \* in the document store when the call was made
    dropped,    \* the ids whose store entry a removeDocument has deleted, where
                \* they are recorded
    notes,      \* preload.js: the persisted notes, id -> searchable content
    issued,     \* preload.js: the note ids handed out so far
    input,      \* <<the argument>> of a function that is called on its own
    debouncer,  \* the Debouncer: its timeouts map and the timers of the event loop
    processor   \* the BatchProcessor: its queue, its flag and its process loop

vars == <<documents, index, result, lastOp, removed, before, asked, known, dropped,
          notes, issued, input, debouncer, processor>>

----------------------------------------------------------------------------
(* Bounds of the model *)

\* number of distinct document ids
MaxDocs == 2

\* largest explicit limit passed to search
MaxLimit == 2

\* longest text tokenize is called on, on its own
MaxTextLen == 4

\* longest string levenshteinDistance is called on, on its own
MaxLevLen == 3

\* number of timers one Debouncer creates
MaxTimers == 3

\* number of operations added to one BatchProcessor
MaxOps == 4

\* the batchSize the BatchProcessor is constructed with
BatchSize == 2

Ids == 1..MaxDocs

----------------------------------------------------------------------------
(* Characters and strings *)

UpperChars == {"A", "B", "G", "K", "M", "S"}

LowerChars ==
    {"a", "b", "c", "d", "e", "f", "g", "h", "i", "j", "k", "l", "m",
     "n", "o", "p", "q", "r", "s", "t", "u", "v", "w", "x", "y", "z"}

WordChars == LowerChars \cup UpperChars \cup {"_"}

\* String.prototype.toLowerCase on one character
LowerChar(c) ==
    CASE c = "A" -> "a"
      [] c = "B" -> "b"
      [] c = "G" -> "g"
      [] c = "K" -> "k"
      [] c = "M" -> "m"
      [] c = "S" -> "s"
      [] OTHER -> c

toLowerCase(s) == [i \in 1..Len(s) |-> LowerChar(s[i])]

\* \w of the regular expressions
IsWord(c) == c \in WordChars

\* \s of the regular expressions
IsSpace(c) == c \in {" ", "\t"}

\* .replace(/[^\w\s]/g, ' ')
stripPunct(s) ==
    [i \in 1..Len(s) |-> IF IsWord(s[i]) \/ IsSpace(s[i]) THEN s[i] ELSE " "]

\* String.prototype.split(/\s+/): the pieces between the maximal whitespace
\* runs, empty pieces at the two ends included ("" splits to [""]).  A piece
\* starts at 1 and after the last character of every run.
pieceStarts(s) ==
    {1} \cup {i + 1 : i \in {j \in 1..Len(s) :
                                 IsSpace(s[j]) /\ (j = Len(s) \/ ~IsSpace(s[j + 1]))}}

\* the piece that starts at p ends before the next whitespace character
pieceFrom(s, p) ==
    LET stops == {j \in p..Len(s) : IsSpace(s[j])}
        stop == IF stops = {} THEN Len(s) + 1
                ELSE CHOOSE j \in stops : \A k \in stops : j <= k
    IN  SubSeq(s, p, stop - 1)

splitWS(s) ==
    LET starts == pieceStarts(s)
        nth(k) == CHOOSE p \in starts : Cardinality({q \in starts : q < p}) = k - 1
    IN  [k \in 1..Cardinality(starts) |-> pieceFrom(s, nth(k))]

\* String.prototype.trim
trim(s) ==
    LET inked == {i \in 1..Len(s) : ~IsSpace(s[i])}
    IN  IF inked = {} THEN <<>>
        ELSE SubSeq(s, CHOOSE i \in inked : \A k \in inked : i <= k,
                       CHOOSE i \in inked : \A k \in inked : i >= k)

\* String.prototype.includes
includes(hay, needle) ==
    \E i \in 0..(Len(hay) - Len(needle)) : SubSeq(hay, i + 1, i + Len(needle)) = needle

SeqRange(s) == {s[i] : i \in 1..Len(s)}

----------------------------------------------------------------------------
(* SearchIndex.tokenize *)

LongerThanOne(token) == Len(token) > 1

NonEmpty(token) == Len(token) > 0

\* a slip: the last filter, of the empty whole-text token, is left out
tokenizeKeepEmpty(text) ==
    IF text = <<>> THEN <<>>
    ELSE LET norm == stripPunct(toLowerCase(text))
         IN  SelectSeq(splitWS(norm), LongerThanOne) \o <<trim(norm)>>

tokenize(text) ==
    IF text = <<>> THEN <<>>
    ELSE LET norm == stripPunct(toLowerCase(text))
         IN  SelectSeq(SelectSeq(splitWS(norm), LongerThanOne) \o <<trim(norm)>>, NonEmpty)

----------------------------------------------------------------------------
(* Scoring arithmetic.  JavaScript numbers are modelled as integers in     *)
(* units of 1/ScoreScale; ScoreScale is a multiple of 10 (the 0.1 per day  *)
(* of the recency bonus) and of every word length up to 8 (the divisor of  *)
(* calculateSimilarity).                                                   *)

ScoreScale == 10 * 840

ExactPhraseBonus == 100
TitlePhraseBonus == 50
TokenBonus == 10
TitleTokenBonus == 20
FuzzyWeight == 2
CoverageBonus == 25
RecencyMax == 5
\* 0.1 = 1 / RecencyDecayDen
RecencyDecayDen == 10
\* 0.7 = SimilarityNum / SimilarityDen
SimilarityNum == 7
SimilarityDen == 10
MinFuzzyLen == 3
DefaultLimit == 50

Min2(a, b) == IF a < b THEN a ELSE b

Max2(a, b) == IF a > b THEN a ELSE b

\* a slip: a substitution costs 2
RECURSIVE levRowDearSubstitution(_, _, _, _, _)
levRowDearSubstitution(str1, str2, i, prev, cur) ==
    LET j == Len(cur)
    IN  IF j > Len(str1) THEN cur
        ELSE levRowDearSubstitution(str1, str2, i, prev,
                    Append(cur,
                           IF str2[i] = str1[j]
                           THEN prev[j]
                           ELSE Min2(Min2(prev[j] + 2, cur[j] + 1), prev[j + 1] + 1)))

\* one row of the matrix of levenshteinDistance: row i from row i - 1;
\* a row is the sequence matrix[i][0..str1.length]
RECURSIVE levRow(_, _, _, _, _)
levRow(str1, str2, i, prev, cur) ==
    LET j == Len(cur)
    IN  IF j > Len(str1) THEN cur
        ELSE levRow(str1, str2, i, prev,
                    Append(cur,
                           IF str2[i] = str1[j]
                           THEN prev[j]
                           ELSE Min2(Min2(prev[j] + 1, cur[j] + 1), prev[j + 1] + 1)))

RECURSIVE levRows(_, _, _, _)
levRows(str1, str2, i, prev) ==
    IF i > Len(str2) THEN prev
    ELSE levRows(str1, str2, i + 1, levRow(str1, str2, i, prev, <<i>>))

levenshteinDistance(str1, str2) ==
    levRows(str1, str2, 1, [j \in 1..(Len(str1) + 1) |-> j - 1])[Len(str1) + 1]

\* calculateSimilarity, as the pair <<numerator, denominator>> of the quotient
calculateSimilarity(str1, str2) ==
    LET longer == IF Len(str1) > Len(str2) THEN str1 ELSE str2
        shorter == IF Len(str1) > Len(str2) THEN str2 ELSE str1
    IN  IF Len(longer) = 0 THEN <<1, 1>>
        ELSE <<Len(longer) - levenshteinDistance(longer, shorter), Len(longer)>>

\* a slip: matches++ for a similar word too
fuzzyWordCountsOne(word, token) ==
    IF Len(word) >= MinFuzzyLen /\ Len(token) >= MinFuzzyLen
    THEN IF includes(word, token) \/ includes(token, word)
         THEN ScoreScale
         ELSE LET similarity == calculateSimilarity(word, token)
              IN  IF similarity[1] * SimilarityDen > SimilarityNum * similarity[2]
                  THEN ScoreScale
                  ELSE 0
    ELSE 0

\* what one word of the content adds to `matches`, in units of 1/ScoreScale
fuzzyWord(word, token) ==
    IF Len(word) >= MinFuzzyLen /\ Len(token) >= MinFuzzyLen
    THEN IF includes(word, token) \/ includes(token, word)
         THEN ScoreScale
         ELSE LET similarity == calculateSimilarity(word, token)
              IN  IF similarity[1] * SimilarityDen > SimilarityNum * similarity[2]
                  THEN (similarity[1] * ScoreScale) \div similarity[2]
                  ELSE 0
    ELSE 0

RECURSIVE sumFuzzy(_, _)
sumFuzzy(words, token) ==
    IF words = <<>> THEN 0
    ELSE fuzzyWord(Head(words), token) + sumFuzzy(Tail(words), token)

\* findFuzzyMatches, in units of 1/ScoreScale
findFuzzyMatches(content, token) == sumFuzzy(splitWS(content), token)

----------------------------------------------------------------------------
(* The score search gives one document.  Time is counted in whole days;   *)
(* `now` is Date.now().                                                    *)

\* metadata.title && metadata.title.toLowerCase().includes(needle)
\* a slip: String(metadata.title), which is "undefined" for a missing title
titleIncludesStringified(metadata, needle) ==
    includes(IF metadata.title # <<>> THEN toLowerCase(metadata.title[1])
             ELSE <<"u", "n", "d", "e", "f", "i", "n", "e", "d">>, needle)

titleIncludes(metadata, needle) ==
    /\ metadata.title # <<>>
    /\ metadata.title[1] # <<>>
    /\ includes(toLowerCase(metadata.title[1]), needle)

\* the exact phrase block
phraseScore(content, metadata, queryLower) ==
    IF includes(content, queryLower)
    THEN ExactPhraseBonus * ScoreScale
         + (IF titleIncludes(metadata, queryLower) THEN TitlePhraseBonus * ScoreScale ELSE 0)
    ELSE 0

\* the token forEach: what one token adds to the score
tokenScore(content, metadata, token) ==
    IF includes(content, token)
    THEN TokenBonus * ScoreScale
         + (IF titleIncludes(metadata, token) THEN TitleTokenBonus * ScoreScale ELSE 0)
    ELSE 0

RECURSIVE sumTokenScores(_, _, _)
sumTokenScores(content, metadata, tokens) ==
    IF tokens = <<>> THEN 0
    ELSE tokenScore(content, metadata, Head(tokens))
         + sumTokenScores(content, metadata, Tail(tokens))

\* tokenMatches
countTokenMatches(content, tokens) ==
    Cardinality({i \in 1..Len(tokens) : includes(content, tokens[i])})

RECURSIVE sumFuzzyScores(_, _)
sumFuzzyScores(content, tokens) ==
    IF tokens = <<>> THEN 0
    ELSE findFuzzyMatches(content, Head(tokens)) * FuzzyWeight
         + sumFuzzyScores(content, Tail(tokens))

\* a slip: the coverage bonus for some token found, not for every token
coverageScoreAnyToken(content, tokens) ==
    IF countTokenMatches(content, tokens) > 0
    THEN CoverageBonus * ScoreScale
    ELSE 0

coverageScore(content, tokens) ==
    IF countTokenMatches(content, tokens) = Len(tokens)
    THEN CoverageBonus * ScoreScale
    ELSE 0

\* Math.max(0, 5 - daysSinceUpdate * 0.1) when metadata.updatedAt is present
recencyScore(metadata, now) ==
    IF metadata.updatedAt # <<>>
    THEN Max2(0, RecencyMax * ScoreScale
                 - ((now - metadata.updatedAt[1]) * ScoreScale) \div RecencyDecayDen)
    ELSE 0

\* the score the forEach of search gives one document, in units of 1/ScoreScale
docScore(doc, query, now) ==
    LET content == toLowerCase(doc.content)
        tokens == tokenize(query)
    IN  phraseScore(content, doc.metadata, toLowerCase(query))
        + sumTokenScores(content, doc.metadata, tokens)
        + sumFuzzyScores(content, tokens)
        + coverageScore(content, tokens)
        + recencyScore(doc.metadata, now)

----------------------------------------------------------------------------
(* The inputs of the calls.  Spec draws from Contents, Metadatas and       *)
(* Queries; SpecRank draws whole documents from RankDocs and its queries   *)
(* from RankQueries.  A metadata object is a record of optional fields:    *)
(* <<>> for an absent field, <<v>> for a field of value v.                 *)

NoMetadata == [title |-> <<>>, updatedAt |-> <<>>]

Contents ==
    { <<>>,
      <<"a", "b">>,
      <<"A", "b", ".", " ", "c", "d">> }

Metadatas ==
    { [title |-> <<(<<"A", "b">>)>>, updatedAt |-> <<90>>] }

Queries ==
    { <<>>,
      <<"a", "b">>,
      <<"c", "d">> }

Times == {100}

RECURSIVE repeatWord(_, _)
repeatWord(word, n) ==
    IF n = 1 THEN word ELSE word \o <<" ">> \o repeatWord(word, n - 1)

\* one word, many times over
LongContent == repeatWord(<<"a", "b", "c">>, 2 * 19)

RankDocs ==
    { [content |-> <<"a", "b", "c", " ", "d", "e">>, metadata |-> NoMetadata],
      [content |-> <<"A", "b", "c", " ", "D", "e">>,
       metadata |-> [title |-> <<(<<"A", "b", "c", " ", "d", "e">>)>>, updatedAt |-> <<>>]],
      [content |-> LongContent, metadata |-> NoMetadata],
      [content |-> <<"a", "b", "c", " ", "x", "y">>,
       metadata |-> [title |-> <<(<<"a", "b", "c">>)>>, updatedAt |-> <<100>>]],
      [content |-> <<"x", "y">>,
       metadata |-> [title |-> <<>>, updatedAt |-> <<90>>]],
      [content |-> <<"a", "b", "x", "d", " ", "e">>,
       metadata |-> [title |-> <<>>, updatedAt |-> <<40>>]] }

RankQueries ==
    { <<>>,
      <<" ">>,
      <<".", " ">>,
      <<"a", "b", "c", " ", "d", "e">>,
      <<"a", "b", "c">>,
      <<"a", "b", "c", "d">> }

\* the two notes of the worked example of the search, by id
ScenarioDocs ==
    <<[content |-> <<"M", "e", "e", "t", "i", "n", "g", " ", "n", "o", "t", "e", "s", " ",
                    "a", "b", "o", "u", "t", " ", "p", "r", "o", "j", "e", "c", "t", " ",
                    "A", "l", "p", "h", "a">>,
       metadata |-> [title |-> <<(<<"A", "l", "p", "h", "a", " ", "K", "i", "c", "k", "o", "f", "f">>)>>,
                     updatedAt |-> <<>>]],
      [content |-> <<"G", "r", "o", "c", "e", "r", "y", " ", "l", "i", "s", "t", ":", " ",
                    "a", "p", "p", "l", "e", "s", ",", " ", "b", "r", "e", "a", "d">>,
       metadata |-> [title |-> <<(<<"S", "h", "o", "p", "p", "i", "n", "g">>)>>,
                     updatedAt |-> <<>>]]>>

QueryAlpha == <<"a", "l", "p", "h", "a">>

QueryApple == <<"a", "p", "p", "l", "e">>

ScenarioQueries == {QueryAlpha, QueryApple}

\* one document at a time, to look at the score search gives it
ScoreContents ==
    { <<"a", "b">>,
      <<"a", "b", " ", "c", "d">>,
      <<"x", "y">>,
      <<"a", "b", "x", "d", " ", "e">>,
      <<"a", "b", "c", " ", "x", "y">> }

ScoreMetadatas ==
    {[title |-> t, updatedAt |-> u] :
        t \in {<<>>, <<(<<"A", "b">>)>>},
        u \in {<<>>, <<100>>, <<90>>, <<50>>, <<40>>, <<101>>}}

ScoreQueries ==
    { <<"a", "b">>,
      <<"a", "b", " ", "x", "y">>,
      <<"a", "b", "c", "d">>,
      <<"a", "b", "c">> }

AllContents ==
    Contents \cup {d.content : d \in RankDocs}
             \cup {ScenarioDocs[i].content : i \in 1..Len(ScenarioDocs)}
             \cup ScoreContents

\* the metadata of the documents of Spec and SpecRank, and the same with a
\* field more or a field less
RankMetadatas ==
    LET used == Metadatas \cup {d.metadata : d \in RankDocs}
    IN  {[title |-> t.title, updatedAt |-> u.updatedAt] : t \in used, u \in used}

AllMetadatas ==
    RankMetadatas \cup {ScenarioDocs[i].metadata : i \in 1..Len(ScenarioDocs)}
                  \cup ScoreMetadatas

AllQueries == Queries \cup RankQueries \cup ScenarioQueries \cup ScoreQueries

LimitArgs == {<<>>} \cup {<<k>> : k \in 1..MaxLimit}

\* the limits of the ranked searches: omitted, the least and the largest
RankLimits == {<<>>, <<1>>, <<MaxLimit>>}

\* tokenize and the score, evaluated once for each input of the model
TokenTable == [text \in AllContents \cup AllQueries |-> tokenize(text)]

ScoreTable ==
    [content \in AllContents, metadata \in AllMetadatas, query \in AllQueries, now \in Times |->
        docScore([content |-> content, metadata |-> metadata], query, now)]

\* this.tokenize(text)
tokensOf(text) == TokenTable[text]

\* the score of the document in the forEach of search
scoreOf(doc, query, now) == ScoreTable[doc.content, doc.metadata, query, now]

----------------------------------------------------------------------------
(* The state of a SearchIndex.                                             *)
(* documents: the Map id -> {content, metadata} as the sequence of its     *)
(*   entries in insertion order (the iteration order of a Map).            *)
(* index: the Map token -> Set of ids, as a function on the stored tokens. *)

EmptyIndex == [t \in {} |-> {}]

DocIds(docs) == {docs[i].id : i \in 1..Len(docs)}

\* Map.prototype.get on the document store (the id is stored)
getDocument(docs, id) == docs[CHOOSE i \in 1..Len(docs) : docs[i].id = id]

\* Map.prototype.set: an entry of a stored key keeps its position
setDocument(docs, id, content, metadata) ==
    LET entry == [id |-> id, content |-> content, metadata |-> metadata]
    IN  IF id \in DocIds(docs)
        THEN [i \in 1..Len(docs) |-> IF docs[i].id = id THEN entry ELSE docs[i]]
        ELSE Append(docs, entry)

\* Map.prototype.delete
RECURSIVE deleteDocument(_, _)
deleteDocument(docs, id) ==
    IF docs = <<>> THEN <<>>
    ELSE IF Head(docs).id = id THEN Tail(docs)
    ELSE <<Head(docs)>> \o deleteDocument(Tail(docs), id)

\* the body of addDocument's forEach, for one token
addPosting(idx, token, id) ==
    [t \in DOMAIN idx \cup {token} |->
        IF t = token
        THEN (IF token \in DOMAIN idx THEN idx[token] ELSE {}) \cup {id}
        ELSE idx[t]]

RECURSIVE addPostings(_, _, _)
addPostings(idx, tokens, id) ==
    IF tokens = <<>> THEN idx
    ELSE addPostings(addPosting(idx, Head(tokens), id), Tail(tokens), id)

\* a slip: the posting set that became empty is left in the index
removePostingKeepEmpty(idx, token, id) ==
    IF token \in DOMAIN idx THEN [idx EXCEPT ![token] = @ \ {id}] ELSE idx

\* the body of removeDocument's forEach, for one token
removePosting(idx, token, id) ==
    IF token \in DOMAIN idx
    THEN IF idx[token] \ {id} = {}
         THEN [t \in DOMAIN idx \ {token} |-> idx[t]]
         ELSE [idx EXCEPT ![token] = @ \ {id}]
    ELSE idx

RECURSIVE removePostings(_, _, _)
removePostings(idx, tokens, id) ==
    IF tokens = <<>> THEN idx
    ELSE removePostings(removePosting(idx, Head(tokens), id), Tail(tokens), id)

\* a slip: the postings go, the store entry stays
removeDocumentKeepEntry(st, id) ==
    IF id \notin DocIds(st.documents) THEN st
    ELSE [documents |-> st.documents,
          index |-> removePostings(st.index,
                                   tokensOf(getDocument(st.documents, id).content), id)]

\* a slip: an id without a store entry is swept out of every posting set
removeDocumentSweep(st, id) ==
    IF id \notin DocIds(st.documents)
    THEN [documents |-> st.documents,
          index |-> [t \in {u \in DOMAIN st.index : st.index[u] \ {id} # {}} |->
                        st.index[t] \ {id}]]
    ELSE [documents |-> deleteDocument(st.documents, id),
          index |-> removePostings(st.index,
                                   tokensOf(getDocument(st.documents, id).content), id)]

removeDocument(st, id) ==
    IF id \notin DocIds(st.documents) THEN st
    ELSE [documents |-> deleteDocument(st.documents, id),
          index |-> removePostings(st.index,
                                   tokensOf(getDocument(st.documents, id).content), id)]

\* a slip: an id that is already stored is taken to be indexed already
addDocumentIndexedOnce(st, id, content, metadata) ==
    [documents |-> setDocument(st.documents, id, content, metadata),
     index |-> IF id \in DocIds(st.documents) THEN st.index
               ELSE addPostings(st.index, tokensOf(content), id)]

\* a slip: the raw content is posted as a token too, empty or not
addDocumentRawContent(st, id, content, metadata) ==
    [documents |-> setDocument(st.documents, id, content, metadata),
     index |-> addPostings(st.index, tokensOf(content) \o <<content>>, id)]

\* a slip: the postings of the content stored before are removed first
addDocumentReplacing(st, id, content, metadata) ==
    LET swept == removeDocument(st, id)
    IN  [documents |-> setDocument(st.documents, id, content, metadata),
         index |-> addPostings(swept.index, tokensOf(content), id)]

addDocument(st, id, content, metadata) ==
    [documents |-> setDocument(st.documents, id, content, metadata),
     index |-> addPostings(st.index, tokensOf(content), id)]

\* a slip: only the inverted index is emptied
clearIndexOnly(st) == [documents |-> st.documents, index |-> EmptyIndex]

clear(st) == [documents |-> <<>>, index |-> EmptyIndex]

RECURSIVE sumTokens(_)
sumTokens(docs) ==
    IF docs = <<>> THEN 0
    ELSE Len(tokensOf(Head(docs).content)) + sumTokens(Tail(docs))

\* averageTokensPerDocument is the quotient <<sum, count>> (<<0, 1>> is 0)
getStats(st) ==
    [documentsCount |-> Len(st.documents),
     tokensCount |-> Cardinality(DOMAIN st.index),
     averageTokensPerDocument |->
        IF Len(st.documents) > 0
        THEN <<sumTokens(st.documents), Len(st.documents)>>
        ELSE <<0, 1>>]

----------------------------------------------------------------------------
(* SearchIndex.search *)

\* a slip: if (score >= 0)
RECURSIVE scoreEntriesKeepZero(_, _, _)
scoreEntriesKeepZero(docs, query, now) ==
    IF docs = <<>> THEN <<>>
    ELSE LET score == scoreOf(Head(docs), query, now)
         IN  (IF score >= 0 THEN <<(<<Head(docs).id, score>>)>> ELSE <<>>)
             \o scoreEntriesKeepZero(Tail(docs), query, now)

\* the entries of the scores Map, in insertion order: <<id, score>>
RECURSIVE scoreEntries(_, _, _)
scoreEntries(docs, query, now) ==
    IF docs = <<>> THEN <<>>
    ELSE LET score == scoreOf(Head(docs), query, now)
         IN  (IF score > 0 THEN <<(<<Head(docs).id, score>>)>> ELSE <<>>)
             \o scoreEntries(Tail(docs), query, now)

\* a slip: (a, b) => a[1] - b[1], which sorts ascending
keepsBeforeAscending(a, b) == a[2] - b[2] <= 0

\* a slip: a sort that is not stable, entries that tie change places
keepsBeforeStrict(a, b) == b[2] - a[2] < 0

\* the comparator (a, b) => b[1] - a[1] says a stays before b
keepsBefore(a, b) == b[2] - a[2] <= 0

\* Array.prototype.sort is stable: an entry goes behind every entry the
\* comparator keeps before it
RECURSIVE insertSorted(_, _)
insertSorted(sorted, e) ==
    IF sorted = <<>> THEN <<e>>
    ELSE IF keepsBefore(Head(sorted), e)
         THEN <<Head(sorted)>> \o insertSorted(Tail(sorted), e)
         ELSE <<e>> \o sorted

RECURSIVE sortEntries(_, _)
sortEntries(entries, sorted) ==
    IF entries = <<>> THEN sorted
    ELSE sortEntries(Tail(entries), insertSorted(sorted, Head(entries)))

\* a slip: .slice(0, limit + 1)
sliceToOneMore(entries, limit) == SubSeq(entries, 1, Min2(limit + 1, Len(entries)))

\* .slice(0, limit) for a positive limit
sliceTo(entries, limit) == SubSeq(entries, 1, Min2(limit, Len(entries)))

search(docs, query, limit, now) ==
    IF Len(tokensOf(query)) = 0 THEN <<>>
    ELSE LET top == sliceTo(sortEntries(scoreEntries(docs, query, now), <<>>), limit)
         IN  [i \in 1..Len(top) |-> top[i][1]]

\* the limit parameter: <<>> when the argument is omitted, <<k>> otherwise
limitOf(arg) == IF arg = <<>> THEN DefaultLimit ELSE arg[1]

----------------------------------------------------------------------------
(* Debouncer.  A timer is numbered by its creation; `made` maps each timer   *)
(* created so far to its key and its function, `pending` holds the timers    *)
(* the event loop has neither fired nor cleared.                             *)

Keys == {"search", "save"}

\* the functions a caller debounces: one that returns, and one that calls
\* debounce with its own key and a function that returns
Fns == {"plain", "again"}

NoTimeouts == [k \in {} |-> 0]

\* constructor: this.timeouts = new Map()
NewDebouncer ==
    [timeouts |-> NoTimeouts,
     pending |-> {},
     made |-> <<>>,
     ran |-> {},
     barred |-> {}]

\* clearTimeout
clearTimeout(d, timer) == [d EXCEPT !.pending = @ \ {timer}]

\* this.timeouts.delete(key)
deleteTimeout(timeouts, key) == [k \in DOMAIN timeouts \ {key} |-> timeouts[k]]

\* this.timeouts.set(key, timer)
setTimeoutOf(timeouts, key, timer) ==
    [k \in DOMAIN timeouts \cup {key} |-> IF k = key THEN timer ELSE timeouts[k]]

debounce(d, key, fn) ==
    LET cleared == IF key \in DOMAIN d.timeouts
                   THEN clearTimeout(d, d.timeouts[key])
                   ELSE d
        timer == Len(d.made) + 1
    IN  [cleared EXCEPT !.made = Append(@, [key |-> key, fn |-> fn]),
                        !.pending = @ \cup {timer},
                        !.timeouts = setTimeoutOf(@, key, timer)]

\* the callback of setTimeout in debounce: fn(); this.timeouts.delete(key)
fire(d, timer) ==
    LET key == d.made[timer].key
        fired == [d EXCEPT !.pending = @ \ {timer}, !.ran = @ \cup {timer}]
        called == IF d.made[timer].fn = "again"
                  THEN debounce(fired, key, "plain")
                  ELSE fired
    IN  [called EXCEPT !.timeouts = deleteTimeout(@, key)]

\* cancel(key); `barred` records the timers made for key that have not run
cancel(d, key) ==
    LET cleared == IF key \in DOMAIN d.timeouts
                   THEN [clearTimeout(d, d.timeouts[key])
                            EXCEPT !.timeouts = deleteTimeout(@, key)]
                   ELSE d
    IN  [cleared EXCEPT !.barred = @ \cup {t \in 1..Len(d.made) :
                                              d.made[t].key = key /\ t \notin d.ran}]

cancelAll(d) ==
    [d EXCEPT !.pending = @ \ {d.timeouts[k] : k \in DOMAIN d.timeouts},
              !.timeouts = NoTimeouts]

----------------------------------------------------------------------------
(* BatchProcessor.  An operation is numbered by its place in the order of    *)
(* the add calls; `kinds` maps each operation added so far to what it does.  *)
(* `pc` is where the process loop waits: "batch" at await Promise.all,       *)
(* "delay" at the await of the timer, "idle" when no loop is running.        *)

\* what an operation does: resolve, reject or throw, or call add with an
\* operation that resolves and then resolve
OpKinds == {"ok", "fails", "adds"}

\* constructor, with batchSize = BatchSize
NewProcessor ==
    [queue |-> <<>>,
     processing |-> FALSE,
     pc |-> "idle",
     batch |-> <<>>,
     running |-> {},
     kinds |-> <<>>,
     batches |-> <<>>,
     failed |-> {},
     loops |-> 0]

\* the batch that this.queue.splice(0, this.batchSize) returns
splice(queue) == SubSeq(queue, 1, Min2(BatchSize, Len(queue)))

RECURSIVE add(_, _)

\* executeOperation up to its await: the operation is called
executeOperation(p, op) ==
    LET called == [p EXCEPT !.running = @ \cup {op}]
    IN  IF p.kinds[op] = "adds" THEN add(called, "ok") ELSE called

\* batch.map(op => this.executeOperation(op))
RECURSIVE executeOperations(_, _)
executeOperations(p, ops) ==
    IF ops = <<>> THEN p
    ELSE executeOperations(executeOperation(p, Head(ops)), Tail(ops))

\* process from the test of its while loop to its next await or its return
loop(p) ==
    IF Len(p.queue) > 0
    THEN LET batch == splice(p.queue)
         IN  executeOperations(
                 [p EXCEPT !.queue = SubSeq(@, Len(batch) + 1, Len(@)),
                           !.batch = batch,
                           !.batches = Append(@, batch),
                           !.pc = "batch"],
                 batch)
    ELSE [p EXCEPT !.processing = FALSE, !.pc = "idle", !.batch = <<>>,
                   !.loops = @ - 1]

\* process up to its first await
process(p) == loop([p EXCEPT !.processing = TRUE, !.loops = @ + 1])

add(p, kind) ==
    LET pushed == [p EXCEPT !.kinds = Append(@, kind),
                            !.queue = Append(@, Len(p.kinds) + 1)]
    IN  IF ~pushed.processing THEN process(pushed) ELSE pushed

\* the promise of executeOperation settles: the operation resolved, or it
\* failed and the catch block logged the error
settle(p, op) ==
    [p EXCEPT !.running = @ \ {op},
              !.failed = IF p.kinds[op] = "fails" THEN @ \cup {op} ELSE @]

\* process after await Promise.all: the delay when operations are queued
afterBatch(p) == IF Len(p.queue) > 0 THEN [p EXCEPT !.pc = "delay"] ELSE loop(p)

----------------------------------------------------------------------------
(* The calls on one SearchIndex *)

\* a call and the id it was given: <<id>>, or <<>> for a call without an id
Call(op, id) == [op |-> op, id |-> id]

NotAsked == [query |-> <<>>, limit |-> <<>>, now |-> <<>>]

NoNotes == [id \in {} |-> <<>>]

here == [documents |-> documents, index |-> index]

Init ==
    /\ documents = <<>>
    /\ index = EmptyIndex
    /\ result = <<>>
    /\ lastOp = Call("new", <<>>)
    /\ removed = {}
    /\ before = <<>>
    /\ asked = NotAsked
    /\ known = FALSE
    /\ dropped = {}
    /\ notes = NoNotes
    /\ issued = {}
    /\ debouncer = NewDebouncer
    /\ processor = NewProcessor
    /\ input = <<>>

AddDocument(id, content, metadata) ==
    LET st == addDocument(here, id, content, metadata)
    IN  /\ documents' = st.documents
        /\ index' = st.index
        /\ result' = <<>>
        /\ lastOp' = Call("addDocument", <<id>>)
        /\ removed' = removed \ {id}
        /\ before' = IF id \in DocIds(documents) THEN <<>> ELSE <<here>>
        /\ known' = (id \in DocIds(documents))
        /\ UNCHANGED <<asked, dropped, notes, issued, input, debouncer, processor>>

\* removeDocument returns
Removing(id) ==
    LET st == removeDocument(here, id)
    IN  /\ documents' = st.documents
        /\ index' = st.index
        /\ result' = <<>>
        /\ lastOp' = Call("removeDocument", <<id>>)
        /\ removed' = removed \cup {id}
        /\ before' = IF lastOp = Call("addDocument", <<id>>) THEN before ELSE <<>>
        /\ known' = (id \in DocIds(documents))
        /\ UNCHANGED <<asked, notes, issued, input, debouncer, processor>>

RemoveDocument(id) ==
    /\ Removing(id)
    /\ UNCHANGED dropped

Clear ==
    LET st == clear(here)
    IN  /\ documents' = st.documents
        /\ index' = st.index
        /\ result' = <<>>
        /\ lastOp' = Call("clear", <<>>)
        /\ before' = <<here>>
        /\ known' = FALSE
        /\ UNCHANGED <<removed, asked, dropped, notes, issued, input, debouncer, processor>>

\* a slip: the documents search does not return are dropped from the store
SearchingKeepsFound(query, limit, now) ==
    /\ result' = search(documents, query, limitOf(limit), now)
    /\ documents' = SelectSeq(documents, LAMBDA d : d.id \in SeqRange(result'))
    /\ lastOp' = Call("search", <<>>)
    /\ before' = <<>>
    /\ known' = FALSE
    /\ UNCHANGED <<index, removed, dropped, notes, issued, input, debouncer, processor>>

\* a slip: the ids posted under a token of the query are candidates too
SearchingPostings(query, limit, now) ==
    /\ LET found == search(documents, query, Len(documents), now)
           tokens == tokensOf(query)
           posted == SelectSeq([i \in 1..Len(documents) |-> documents[i].id],
                               LAMBDA id : /\ id \notin SeqRange(found)
                                           /\ \E k \in 1..Len(tokens) :
                                                 /\ tokens[k] \in DOMAIN index
                                                 /\ id \in index[tokens[k]])
       IN  result' = sliceTo(found \o posted, limitOf(limit))
    /\ lastOp' = Call("search", <<>>)
    /\ before' = <<>>
    /\ known' = FALSE
    /\ UNCHANGED <<documents, index, removed, dropped, notes, issued, input, debouncer, processor>>

\* search returns; the index is not written
Searching(query, limit, now) ==
    /\ result' = search(documents, query, limitOf(limit), now)
    /\ lastOp' = Call("search", <<>>)
    /\ before' = <<>>
    /\ known' = FALSE
    /\ UNCHANGED <<documents, index, removed, dropped, notes, issued, input, debouncer, processor>>

Search(query, limit, now) ==
    /\ Searching(query, limit, now)
    /\ UNCHANGED asked

GetStats ==
    /\ result' = getStats(here)
    /\ lastOp' = Call("getStats", <<>>)
    /\ before' = <<>>
    /\ known' = FALSE
    /\ UNCHANGED <<documents, index, removed, asked, dropped, notes, issued, input, debouncer, processor>>

\* any sequence of calls on the index, on any id
Next ==
    \/ \E id \in Ids, content \in Contents, metadata \in Metadatas :
          AddDocument(id, content, metadata)
    \/ \E id \in Ids : RemoveDocument(id)
    \/ Clear
    \/ \E query \in Queries, limit \in LimitArgs, now \in Times :
          Search(query, limit, now)
    \/ GetStats

Spec == Init /\ [][Next]_vars

\* new documents are added, and searched with the arguments recorded
AddRanked(id, doc) ==
    /\ id \notin DocIds(documents)
    /\ AddDocument(id, doc.content, doc.metadata)

SearchRanked(query, limit, now) ==
    /\ Searching(query, limit, now)
    /\ asked' = [query |-> query, limit |-> limit, now |-> <<now>>]

NextRank ==
    \/ \E id \in Ids, doc \in RankDocs : AddRanked(id, doc)
    \/ \E query \in RankQueries, limit \in RankLimits, now \in Times :
          SearchRanked(query, limit, now)

SpecRank == Init /\ [][NextRank]_vars

\* the caller that removes before it adds: addDocument is called on ids
\* without a store entry only
AddAbsent(id, content, metadata) ==
    /\ id \notin DocIds(documents)
    /\ AddDocument(id, content, metadata)

RemoveRecorded(id) ==
    /\ Removing(id)
    /\ dropped' = IF id \in DocIds(documents) THEN dropped \cup {id} ELSE dropped

NextDiscipline ==
    \/ \E id \in Ids, content \in Contents, metadata \in Metadatas :
          AddAbsent(id, content, metadata)
    \/ \E id \in Ids : RemoveRecorded(id)
    \/ Clear

SpecDiscipline == Init /\ [][NextDiscipline]_vars

\* the notes of the worked example are added and removed, and searched
AddScenario(id) ==
    AddDocument(id, ScenarioDocs[id].content, ScenarioDocs[id].metadata)

NextScenario ==
    \/ \E id \in 1..Len(ScenarioDocs) : AddScenario(id)
    \/ \E id \in 1..Len(ScenarioDocs) : RemoveRecorded(id)
    \/ \E query \in ScenarioQueries, limit \in LimitArgs, now \in Times :
          SearchRanked(query, limit, now)

SpecScenario == Init /\ [][NextScenario]_vars

\* documents that tie are added, added again, removed, and searched
ReAddContents == {<<"a", "b">>, <<"a", "b", " ", "c", "d">>}

ReAddQueries == {<<"a", "b">>, <<"c", "d">>}

\* search without a limit, and with limit 1
ReAddLimits == {<<>>, <<1>>}

AddAgain(id, content) == AddDocument(id, content, NoMetadata)

NextReAdd ==
    \/ \E id \in Ids, content \in ReAddContents : AddAgain(id, content)
    \/ \E id \in Ids : RemoveRecorded(id)
    \/ \E query \in ReAddQueries, limit \in ReAddLimits, now \in Times :
          SearchRanked(query, limit, now)

SpecReAdd == Init /\ [][NextReAdd]_vars

\* one document is added, and searched
AddScored(id, content, metadata) ==
    /\ documents = <<>>
    /\ AddDocument(id, content, metadata)

NextScore ==
    \/ \E id \in Ids, content \in ScoreContents, metadata \in ScoreMetadatas :
          AddScored(id, content, metadata)
    \/ \E query \in ScoreQueries, limit \in LimitArgs, now \in Times :
          SearchRanked(query, limit, now)

SpecScore == Init /\ [][NextScore]_vars

----------------------------------------------------------------------------
(* preload.js: the handlers that persist notes and call the search index.  *)
(* A note is its id and its searchable content (title, content,            *)
(* description and tags joined); a handler is one step, its awaits         *)
(* succeeding.                                                             *)

\* the metadata the handlers pass: { title, category, updatedAt }
NoteMetadata == CHOOSE m \in Metadatas : TRUE

\* what the database can hold when the application starts
NoteSets == UNION {[S -> Contents \ {<<>>}] : S \in SUBSET Ids}

\* the ids of S in the order getNotes() returns them
RECURSIVE idsInOrder(_)
idsInOrder(S) ==
    IF S = {} THEN <<>>
    ELSE LET first == CHOOSE id \in S : \A other \in S : id <= other
         IN  <<first>> \o idsInOrder(S \ {first})

\* notes.forEach(note => searchIndex.addDocument(note.id, searchContent, ..))
RECURSIVE addNotes(_, _, _)
addNotes(st, ids, ns) ==
    IF ids = <<>> THEN st
    ELSE addNotes(addDocument(st, Head(ids), ns[Head(ids)], NoteMetadata), Tail(ids), ns)

\* searchIndex.clear() and addDocument of every note
rebuild(st, ns) == addNotes(clear(st), idsInOrder(DOMAIN ns), ns)

saveNote(ns, id, content) ==
    [n \in DOMAIN ns \cup {id} |-> IF n = id THEN content ELSE ns[n]]

deleteNoteFile(ns, id) == [n \in DOMAIN ns \ {id} |-> ns[n]]

\* Date.now().toString(): an id no note ever had
FreshId(id) == id \notin issued

\* the application starts on any database
AppStart ==
    /\ notes \in NoteSets
    /\ issued = DOMAIN notes
    /\ debouncer = NewDebouncer
    /\ processor = NewProcessor
    /\ documents = <<>>
    /\ index = EmptyIndex
    /\ result = <<>>
    /\ lastOp = Call("new", <<>>)
    /\ removed = {}
    /\ before = <<>>
    /\ asked = NotAsked
    /\ known = FALSE
    /\ dropped = {}
    /\ input = <<>>

\* a handler has run: ns is persisted, st is the search index it leaves,
\* onStored tells whether it called addDocument on an id that was stored
Handled(name, id, ns, st, onStored) ==
    /\ notes' = ns
    /\ issued' = issued \cup DOMAIN ns
    /\ documents' = st.documents
    /\ index' = st.index
    /\ result' = <<>>
    /\ lastOp' = Call(name, id)
    /\ before' = <<>>
    /\ known' = onStored
    /\ UNCHANGED <<removed, asked, dropped, input, debouncer, processor>>

Started == lastOp.op # "new"

InitApp ==
    /\ ~Started
    /\ Handled("initApp", <<>>, notes, rebuild(here, notes), FALSE)

RefreshApp ==
    /\ Started
    /\ Handled("refreshApp", <<>>, notes, rebuild(here, notes), FALSE)

\* the editor saves currentNote, or a new note when there is none
SaveCurrentNote(id, content) ==
    /\ Started
    /\ id \in DOMAIN notes \/ FreshId(id)
    /\ Handled("saveCurrentNote", <<id>>, saveNote(notes, id, content), here, FALSE)

PerformQuickCaptureSave(id, content) ==
    /\ Started
    /\ FreshId(id)
    /\ Handled("performQuickCaptureSave", <<id>>, saveNote(notes, id, content),
               addDocument(here, id, content, NoteMetadata), id \in DocIds(documents))

PerformSaveAndEditQuickCapture(id, content) ==
    /\ Started
    /\ FreshId(id)
    /\ Handled("performSaveAndEditQuickCapture", <<id>>, saveNote(notes, id, content),
               addDocument(here, id, content, NoteMetadata), id \in DocIds(documents))

ImportSingleFile(id, content) ==
    /\ Started
    /\ FreshId(id)
    /\ Handled("importSingleFile", <<id>>, saveNote(notes, id, content),
               addDocument(here, id, content, NoteMetadata), id \in DocIds(documents))

\* currentNote gets another category; its searchable content stays
ConfirmMoveNote(id) ==
    /\ Started
    /\ id \in DOMAIN notes
    /\ Handled("confirmMoveNote", <<id>>, saveNote(notes, id, notes[id]),
               addDocument(here, id, notes[id], NoteMetadata), id \in DocIds(documents))

\* the selected ids that are ids of notes are indexed again
ConfirmBulkMove(selectedNotes) ==
    /\ Started
    /\ selectedNotes # {}
    /\ Handled("confirmBulkMove", <<>>, notes,
               addNotes(here, idsInOrder(selectedNotes \cap DOMAIN notes), notes),
               selectedNotes \cap DOMAIN notes \cap DocIds(documents) # {})

DeleteNote(id) ==
    /\ Started
    /\ id \in DOMAIN notes
    /\ Handled("deleteNote", <<id>>, deleteNoteFile(notes, id), here, FALSE)

DeleteDuplicate(id) ==
    /\ Started
    /\ id \in DOMAIN notes
    /\ Handled("deleteDuplicate", <<id>>, deleteNoteFile(notes, id), here, FALSE)

NextApp ==
    \/ InitApp
    \/ RefreshApp
    \/ \E id \in Ids, content \in Contents \ {<<>>} : SaveCurrentNote(id, content)
    \/ \E id \in Ids, content \in Contents \ {<<>>} : PerformQuickCaptureSave(id, content)
    \/ \E id \in Ids, content \in Contents \ {<<>>} :
          PerformSaveAndEditQuickCapture(id, content)
    \/ \E id \in Ids, content \in Contents \ {<<>>} : ImportSingleFile(id, content)
    \/ \E id \in Ids : ConfirmMoveNote(id)
    \/ \E selectedNotes \in SUBSET Ids : ConfirmBulkMove(selectedNotes)
    \/ \E id \in Ids : DeleteNote(id)
    \/ \E id \in Ids : DeleteDuplicate(id)

SpecApp == AppStart /\ [][NextApp]_vars

----------------------------------------------------------------------------
(* tokenize, called on its own *)

TextChars == {"a", "B", " ", "\t", "."}

\* the texts of at most n characters
RECURSIVE TextsUpTo(_)
TextsUpTo(n) ==
    IF n = 0 THEN {<<>>}
    ELSE LET shorter == TextsUpTo(n - 1)
         IN  shorter \cup {Append(t, c) : t \in shorter, c \in TextChars}

TokenizeStart ==
    /\ input \in {<<t>> : t \in TextsUpTo(MaxTextLen)}
    /\ documents = <<>>
    /\ index = EmptyIndex
    /\ result = <<>>
    /\ lastOp = Call("new", <<>>)
    /\ removed = {}
    /\ before = <<>>
    /\ asked = NotAsked
    /\ known = FALSE
    /\ dropped = {}
    /\ notes = NoNotes
    /\ issued = {}
    /\ debouncer = NewDebouncer
    /\ processor = NewProcessor

Tokenize ==
    /\ lastOp.op = "new"
    /\ result' = tokenize(input[1])
    /\ lastOp' = Call("tokenize", <<>>)
    /\ UNCHANGED <<documents, index, removed, before, asked, known, dropped,
                   notes, issued, input, debouncer, processor>>

NextTokenize == Tokenize

SpecTokenize == TokenizeStart /\ [][NextTokenize]_vars

----------------------------------------------------------------------------
(* The index and the document store *)

Postings(idx, token) == IF token \in DOMAIN idx THEN idx[token] ELSE {}

ContentTokens(content) == SeqRange(tokensOf(content))

\* every token a call of Spec can post, and every token posted
TokenUniverse == UNION {ContentTokens(c) : c \in Contents}

Stored(id) == id \in DocIds(documents)

PostedSomewhere(idx, id) == \E t \in DOMAIN idx : id \in idx[t]

\* C1: an id is in the posting set of token T if and only if the id is in the
\* document store and T is a token of its stored content, after any sequence
\* of addDocument, removeDocument and clear.
InvertedIndexInvariant ==
    \A id \in Ids, t \in TokenUniverse \cup DOMAIN index :
        id \in Postings(index, t)
            <=> (Stored(id) /\ t \in ContentTokens(getDocument(documents, id).content))

\* C2: every id of a posting set has a store entry, and after
\* removeDocument(id) the id has no store entry and is in no posting set.
PostedIdsAreStored ==
    /\ \A t \in DOMAIN index : index[t] \subseteq DocIds(documents)
    /\ lastOp.op = "removeDocument"
          => ~Stored(lastOp.id[1]) /\ ~PostedSomewhere(index, lastOp.id[1])

SameButFor(U, S, id) ==
    \A t \in DOMAIN U.index \cup DOMAIN S.index :
        /\ Postings(U.index, t) \ {id} = Postings(S.index, t) \ {id}
        /\ Postings(U.index, t) \subseteq Postings(S.index, t)

\* U is S after addDocument(id, content, ..) and removeDocument(id)
RoundTrip(S, U, id) ==
    /\ getStats(U).documentsCount = getStats(S).documentsCount
    /\ SameButFor(U, S, id)
    /\ ~PostedSomewhere(S.index, id) => U.index = S.index

\* C4 as claimed: addDocument(id, content, metadata) and then
\* removeDocument(id) restore documentsCount, the index tokens and every
\* posting set, from any state and for any id.
RoundTripRestores ==
    \A id \in Ids, c \in Contents, m \in Metadatas :
        LET U == removeDocument(addDocument(here, id, c, m), id)
        IN  /\ getStats(U).documentsCount = getStats(here).documentsCount
            /\ U.index = index

\* C4 as amended: for an id that has no store entry, addDocument(id, content,
\* metadata) and then removeDocument(id) restore documentsCount and every
\* posting set, except that id is no longer posted under the tokens of
\* content (a set that becomes empty is dropped); so when id is in no posting
\* set beforehand, the index tokens and every posting set are restored.
RoundTripOfNewId ==
    /\ (lastOp.op = "removeDocument" /\ before # <<>>)
          => RoundTrip(before[1], here, lastOp.id[1])
    /\ \A id \in Ids \ DocIds(documents), c \in Contents, m \in Metadatas :
          LET U == removeDocument(addDocument(here, id, c, m), id)
          IN  /\ RoundTrip(here, U, id)
              /\ \A t \in DOMAIN index \cup ContentTokens(c) :
                    Postings(U.index, t) =
                        IF t \in ContentTokens(c) THEN Postings(index, t) \ {id}
                        ELSE Postings(index, t)
              /\ \A t \in DOMAIN U.index : U.index[t] # {}

\* C4: removeDocument(id) right after addDocument of the new id, on an index
\* that held another document, gave back the index of before
WitnessRoundTripOfNewId ==
    /\ lastOp.op = "removeDocument"
    /\ before # <<>>
    /\ before[1].documents # <<>>
    /\ before[1].index # EmptyIndex
    /\ index = before[1].index
    /\ documents = before[1].documents

----------------------------------------------------------------------------
(* Search results *)

\* the score search gave the stored document id
ScoreOfId(id, query, now) == scoreOf(getDocument(documents, id), query, now)

\* the stored ids search scores above 0
Candidates(query, now) == {id \in DocIds(documents) : ScoreOfId(id, query, now) > 0}

PositionIn(seq, x) == CHOOSE i \in 1..Len(seq) : seq[i] = x

StoredAt(id) == CHOOSE i \in 1..Len(documents) : documents[i].id = id

\* C5: after removeDocument(id), and until addDocument(id, ..) is called
\* again, no search returns id, for any query and limit and whatever calls
\* came before.
NoStaleResults ==
    /\ \A id \in removed, q \in Queries, k \in LimitArgs, now \in Times :
          id \notin SeqRange(search(documents, q, limitOf(k), now))
    /\ lastOp.op = "search" => SeqRange(result) \cap removed = {}

\* C5: a search returned documents while a removed id was still posted
WitnessNoStaleResults ==
    /\ lastOp.op = "search"
    /\ result # <<>>
    /\ \E id \in removed : PostedSomewhere(index, id)

NoStats == [documentsCount |-> 0, tokensCount |-> 0, averageTokensPerDocument |-> <<0, 1>>]

\* C6: clear leaves the index and the document store empty, getStats then
\* reports 0, 0 and 0, and a second clear gives the state of the first.
ClearEmptiesAll ==
    /\ lastOp.op = "clear"
          => /\ documents = <<>>
             /\ index = EmptyIndex
             /\ getStats(here) = NoStats
             /\ clear(here) = here
    /\ getStats(clear(here)) = NoStats
    /\ clear(clear(here)) = clear(here)
    /\ (lastOp.op = "getStats" /\ documents = <<>> /\ index = EmptyIndex)
          => result = NoStats

\* C6: clear was called on an index that held documents and postings
WitnessClearEmptiesAll ==
    /\ lastOp.op = "clear"
    /\ before[1].documents # <<>>
    /\ before[1].index # EmptyIndex
    /\ documents = <<>>
    /\ index = EmptyIndex

\* r is ordered by non-increasing score, every score above 0
Ranked(r, query, now) ==
    \A i \in 1..Len(r) :
        /\ r[i] \in DocIds(documents)
        /\ ScoreOfId(r[i], query, now) > 0
        /\ i < Len(r) => ScoreOfId(r[i], query, now) >= ScoreOfId(r[i + 1], query, now)

\* C7: what search returns is ordered by non-increasing score, and every
\* returned document has a score above 0.
SearchIsRanked ==
    lastOp.op = "search" => Ranked(result, asked.query, asked.now[1])

\* C7: search put a document of higher score before one stored earlier
WitnessSearchIsRanked ==
    /\ lastOp.op = "search"
    /\ Len(result) >= 2
    /\ ScoreOfId(result[1], asked.query, asked.now[1])
          > ScoreOfId(result[2], asked.query, asked.now[1])
    /\ StoredAt(result[1]) > StoredAt(result[2])

\* r holds at most k ids, each once; with k or more candidates it holds k of
\* them, none scoring below a candidate left out; with fewer it holds all
TopOf(r, k, query, now) ==
    LET cands == Candidates(query, now)
    IN  /\ Len(r) <= k
        /\ \A i, j \in 1..Len(r) : r[i] = r[j] => i = j
        /\ SeqRange(r) \subseteq cands
        /\ Cardinality(cands) >= k => Len(r) = k
        /\ Cardinality(cands) < k => SeqRange(r) = cands
        /\ \A id \in SeqRange(r), out \in cands \ SeqRange(r) :
              ScoreOfId(id, query, now) >= ScoreOfId(out, query, now)

\* the cap of a limit argument: k for <<k>>, 50 without one
CapOf(limit) == IF limit = <<>> THEN 50 ELSE limit[1]

PhraseAgainstOneToken(A, B, query) ==
    /\ includes(toLowerCase(A.content), toLowerCase(query))
    /\ ~includes(toLowerCase(B.content), toLowerCase(query))
    /\ Cardinality(ContentTokens(B.content) \cap SeqRange(tokensOf(query))) = 1

\* id a is in r, and before id b if b is in r
Ahead(r, a, b) ==
    /\ a \in SeqRange(r)
    /\ b \in SeqRange(r) => PositionIn(r, a) < PositionIn(r, b)

\* C9: a document whose content contains the whole query is ranked ahead of
\* a document that does not contain it and shares one token with the query,
\* whatever the rest of the content and the metadata of the latter.
ExactPhraseDominates ==
    \A q \in RankQueries, now \in Times, i, j \in 1..Len(documents) :
        (tokensOf(q) # <<>> /\ PhraseAgainstOneToken(documents[i], documents[j], q))
            => Ahead(search(documents, q, DefaultLimit, now), documents[i].id, documents[j].id)

HasNoWordChar(query) == \A i \in 1..Len(query) : ~IsWord(query[i])

\* C10: search with an empty query, a whitespace-only query or a query
\* without a word character returns the empty sequence, whatever is stored.
EmptyQueryFindsNothing ==
    (lastOp.op = "search" /\ HasNoWordChar(asked.query)) => result = <<>>

\* C10: a whitespace-only search returned nothing while a stored document,
\* updated lately, scores above 0 for a query with words
WitnessEmptyQueryFindsNothing ==
    /\ lastOp.op = "search"
    /\ asked.query = <<" ">>
    /\ result = <<>>
    /\ \E i \in 1..Len(documents) :
          /\ documents[i].metadata.updatedAt # <<>>
          /\ recencyScore(documents[i].metadata, asked.now[1]) > 0

----------------------------------------------------------------------------
(* Calls on the edge of the contract *)

\* C11: removeDocument(id) for an id without a store entry changes neither
\* the document store nor the index tokens nor any posting set, stale
\* postings of id included, and returns nothing.
RemoveUnknownIsNoOp ==
    [][\A id \in Ids :
          (lastOp' = Call("removeDocument", <<id>>) /\ id \notin DocIds(documents))
              => (documents' = documents /\ index' = index /\ result' = <<>>)]_vars

\* C11: removeDocument was called on an id that had no store entry and that
\* a posting set still lists
WitnessRemoveUnknownIsNoOp ==
    /\ lastOp.op = "removeDocument"
    /\ ~known
    /\ ~Stored(lastOp.id[1])
    /\ PostedSomewhere(index, lastOp.id[1])

OneEmptyDocumentStats ==
    [documentsCount |-> 1, tokensCount |-> 0, averageTokensPerDocument |-> <<0, 1>>]

\* C12: addDocument(id, "", metadata) stores the document and leaves the
\* index as it was, no token and no posting added; on an empty index
\* getStats then returns documentsCount 1, tokensCount 0 and
\* averageTokensPerDocument 0.
EmptyContentIsStoredUnposted ==
    /\ \A id \in Ids, m \in Metadatas :
          LET U == addDocument(here, id, <<>>, m)
          IN  /\ id \in DocIds(U.documents)
              /\ getDocument(U.documents, id).content = <<>>
              /\ U.index = index
              /\ (documents = <<>> /\ index = EmptyIndex)
                    => getStats(U) = OneEmptyDocumentStats
    /\ (lastOp.op = "addDocument" /\ before # <<>>
            /\ getDocument(documents, lastOp.id[1]).content = <<>>)
          => index = before[1].index
    /\ (lastOp.op = "getStats" /\ index = EmptyIndex /\ Len(documents) = 1
            /\ documents[1].content = <<>>)
          => result = OneEmptyDocumentStats

\* C12: getStats was called on an index holding one document of empty
\* content and no token
WitnessEmptyContentIsStoredUnposted ==
    /\ lastOp.op = "getStats"
    /\ index = EmptyIndex
    /\ Len(documents) = 1
    /\ documents[1].content = <<>>
    /\ result.documentsCount = 1

\* C13: while addDocument is only called on ids without a store entry, an
\* id is in the posting set of token T exactly when the id is stored and T
\* is a token of its stored content, and every posted id is stored.
DisciplinedIndexIsExact ==
    /\ \A id \in Ids, t \in TokenUniverse \cup DOMAIN index :
          id \in Postings(index, t)
              <=> (Stored(id) /\ t \in ContentTokens(getDocument(documents, id).content))
    /\ \A t \in DOMAIN index : index[t] \subseteq DocIds(documents)

\* C13: an id whose store entry had been removed was added again, beside
\* another stored document, with content that has tokens
WitnessDisciplinedIndexIsExact ==
    /\ lastOp.op = "addDocument"
    /\ ~known
    /\ lastOp.id[1] \in dropped
    /\ Len(documents) = 2
    /\ ContentTokens(getDocument(documents, lastOp.id[1]).content) # {}

----------------------------------------------------------------------------
(* The application and the index *)

\* C14: once a handler of the application has completed, the document
\* store of the index holds exactly the ids of the persisted notes, each with
\* the note's current searchable content.
IndexInStepWithNotes ==
    Started
        => /\ DocIds(documents) = DOMAIN notes
           /\ \A id \in DOMAIN notes : getDocument(documents, id).content = notes[id]

AddingHandlers ==
    {"performQuickCaptureSave", "performSaveAndEditQuickCapture", "importSingleFile",
     "confirmMoveNote", "confirmBulkMove"}

\* C15: outside the full rebuilds, a handler never calls addDocument on an
\* id that is still in the document store (a re-indexed note is removed
\* first).
NoAddOnStoredId ==
    lastOp.op \in AddingHandlers => ~known

----------------------------------------------------------------------------
(* The worked example *)

ScenarioStored(ids) ==
    /\ DocIds(documents) = ids
    /\ \A id \in ids : getDocument(documents, id).content = ScenarioDocs[id].content
    /\ \A id \in ids : getDocument(documents, id).metadata = ScenarioDocs[id].metadata

\* C16: with "Meeting notes about project Alpha" (title "Alpha Kickoff") as
\* doc1 and "Grocery list: apples, bread" (title "Shopping") as doc2 the only
\* documents, search("alpha") returns exactly [doc1] and search("apple")
\* contains doc2; once doc1 is removed, search("alpha") returns [].
WorkedExample ==
    lastOp.op = "search"
        => /\ (ScenarioStored({1, 2}) /\ asked.query = QueryAlpha) => result = <<1>>
           /\ (ScenarioStored({1, 2}) /\ asked.query = QueryApple) => 2 \in SeqRange(result)
           /\ (ScenarioStored({2}) /\ 1 \in dropped /\ asked.query = QueryAlpha)
                 => result = <<>>

\* C16: search("alpha") came back empty after doc1 had been stored and
\* removed, doc2 staying
WitnessWorkedExample ==
    /\ lastOp.op = "search"
    /\ asked.query = QueryAlpha
    /\ asked.limit = <<>>
    /\ ScenarioStored({2})
    /\ 1 \in dropped
    /\ result = <<>>

----------------------------------------------------------------------------
(* Missing metadata fields *)

\* the title bonuses of search for a title that is present: 50 when content
\* and title both hold the query, 20 for every token both hold
RECURSIVE titleTokenBonuses(_, _, _)
titleTokenBonuses(content, title, tokens) ==
    IF tokens = <<>> THEN 0
    ELSE (IF includes(content, Head(tokens)) /\ includes(title, Head(tokens))
          THEN TitleTokenBonus * ScoreScale ELSE 0)
         + titleTokenBonuses(content, title, Tail(tokens))

titleBonuses(content, title, query) ==
    (IF includes(toLowerCase(content), toLowerCase(query))
        /\ includes(toLowerCase(title), toLowerCase(query))
     THEN TitlePhraseBonus * ScoreScale ELSE 0)
    + titleTokenBonuses(toLowerCase(content), toLowerCase(title), tokensOf(query))

\* the recency bonus of search for an updatedAt that is present
recencyBonus(updatedAt, now) ==
    Max2(0, RecencyMax * ScoreScale - ((now - updatedAt) * ScoreScale) \div RecencyDecayDen)

\* full has a title and an updatedAt, and every field of metadata
Completes(full, metadata) ==
    /\ full.title # <<>>
    /\ full.title[1] # <<>>
    /\ full.updatedAt # <<>>
    /\ metadata.title # <<>> => full.title = metadata.title
    /\ metadata.updatedAt # <<>> => full.updatedAt = metadata.updatedAt

Lacking(doc) == doc.metadata.title = <<>> \/ doc.metadata.updatedAt = <<>>

\* C17: search returns for documents stored without a title and/or without
\* an updatedAt, and the score it gives such a document is the score of the
\* same document with the fields present, less the title bonuses when the
\* title is missing and less the recency bonus when updatedAt is missing.
MissingFieldsWithholdBonus ==
    (lastOp.op = "search" /\ tokensOf(asked.query) # <<>>)
        => \A i \in 1..Len(documents), full \in RankMetadatas :
              (Lacking(documents[i]) /\ Completes(full, documents[i].metadata))
                  => scoreOf(documents[i], asked.query, asked.now[1])
                        = scoreOf([documents[i] EXCEPT !.metadata = full],
                                  asked.query, asked.now[1])
                          - (IF documents[i].metadata.title = <<>>
                             THEN titleBonuses(documents[i].content, full.title[1],
                                               asked.query)
                             ELSE 0)
                          - (IF documents[i].metadata.updatedAt = <<>>
                             THEN recencyBonus(full.updatedAt[1], asked.now[1])
                             ELSE 0)

\* C17: search returned a document stored without any metadata field whose
\* content holds the query, beside a document stored with a title only
WitnessMissingFieldsWithholdBonus ==
    /\ lastOp.op = "search"
    /\ tokensOf(asked.query) # <<>>
    /\ \E i, j \in 1..Len(documents) :
          /\ documents[i].metadata = NoMetadata
          /\ includes(toLowerCase(documents[i].content), toLowerCase(asked.query))
          /\ documents[i].id \in SeqRange(result)
          /\ documents[j].metadata.title # <<>>
          /\ documents[j].metadata.updatedAt = <<>>

----------------------------------------------------------------------------
(* Adding an id again *)

\* the index of U is the index of S with id added under tokens
PostedUnder(U, S, id, tokens) ==
    \A t \in DOMAIN U.index \cup DOMAIN S.index \cup tokens :
        Postings(U.index, t) =
            IF t \in tokens THEN Postings(S.index, t) \cup {id} ELSE Postings(S.index, t)

\* the index of U is the index of S with id deleted under tokens
UnpostedUnder(U, S, id, tokens) ==
    \A t \in DOMAIN U.index \cup DOMAIN S.index \cup tokens :
        Postings(U.index, t) =
            IF t \in tokens THEN Postings(S.index, t) \ {id} ELSE Postings(S.index, t)

\* C18: addDocument(id, c2, m2) on an id stored with content c1 overwrites
\* the store entry, adds id under every token of c2 and removes id from no
\* posting set: id stays under every token of c1, and a removeDocument(id)
\* that follows deletes id under the tokens of c2 only.
ReAddKeepsOldPostings ==
    [][\A id \in DocIds(documents) :
          lastOp' = Call("addDocument", <<id>>)
              => LET c1 == getDocument(documents, id).content
                     c2 == getDocument(documents', id).content
                     S == [documents |-> documents', index |-> index']
                     U == removeDocument(S, id)
                 IN  /\ DocIds(documents') = DocIds(documents)
                     /\ PostedUnder(S, here, id, ContentTokens(c2))
                     /\ \A t \in ContentTokens(c1) \cup ContentTokens(c2) :
                           id \in Postings(index', t)
                     /\ UnpostedUnder(U, S, id, ContentTokens(c2))
                     /\ \A t \in ContentTokens(c1) \ ContentTokens(c2) :
                           id \in Postings(U.index, t)
                     /\ id \notin DocIds(U.documents)]_vars

\* C18: a stored id was added again with content that lacks a token of the
\* content stored before, and the posting set of that token still lists it
WitnessReAddKeepsOldPostings ==
    /\ lastOp.op = "addDocument"
    /\ known
    /\ \E t \in DOMAIN index :
          /\ lastOp.id[1] \in index[t]
          /\ t \notin ContentTokens(getDocument(documents, lastOp.id[1]).content)

\* C19: no token of the index maps to an empty posting set, in any state
\* reached by addDocument, removeDocument and clear, so the tokensCount of
\* getStats counts tokens with at least one posting.
NoDeadTokens ==
    /\ \A t \in DOMAIN index : index[t] # {}
    /\ getStats(here).tokensCount = Cardinality({t \in DOMAIN index : index[t] # {}})
    /\ lastOp.op = "getStats"
          => result.tokensCount = Cardinality({t \in TokenUniverse : Postings(index, t) # {}})

\* C19: removeDocument deleted a store entry and left a token of the model
\* without an entry in the index, other postings staying
WitnessNoDeadTokens ==
    /\ lastOp.op = "removeDocument"
    /\ known
    /\ index # EmptyIndex
    /\ \E t \in TokenUniverse : t \notin DOMAIN index

----------------------------------------------------------------------------
(* The tokens of a text *)

\* the maximal runs <<first, last>> of characters of s that are not whitespace
Runs(s) ==
    {r \in (1..Len(s)) \X (1..Len(s)) :
        /\ r[1] <= r[2]
        /\ \A i \in r[1]..r[2] : ~IsSpace(s[i])
        /\ r[1] = 1 \/ IsSpace(s[r[1] - 1])
        /\ r[2] = Len(s) \/ IsSpace(s[r[2] + 1])}

\* the words of s of two characters or more, first to last
LongWords(s) ==
    LET runs == {r \in Runs(s) : r[2] - r[1] + 1 >= 2}
        nth(k) == CHOOSE r \in runs : Cardinality({q \in runs : q[1] < r[1]}) = k - 1
    IN  [k \in 1..Cardinality(runs) |-> SubSeq(s, nth(k)[1], nth(k)[2])]

\* s from its first to its last character that is not whitespace
Trimmed(s) ==
    LET runs == Runs(s)
    IN  SubSeq(s, (CHOOSE r \in runs : \A q \in runs : r[1] <= q[1])[1],
                  (CHOOSE r \in runs : \A q \in runs : r[2] >= q[2])[2])

\* text in lower case, every character that is neither a word character nor
\* whitespace replaced by a space
Normalized(text) ==
    [i \in 1..Len(text) |->
        IF IsWord(text[i]) THEN LowerChar(text[i])
        ELSE IF IsSpace(text[i]) THEN text[i]
        ELSE " "]

----------------------------------------------------------------------------
(* The parts of the score *)

\* 1 if the condition holds, 0 if not
Indicator(condition) == IF condition THEN 1 ELSE 0

RECURSIVE SumOver(_, _)
SumOver(values, k) == IF k = 0 THEN 0 ELSE values[k] + SumOver(values, k - 1)

\* the words of the lowercased content that are compared with query tokens
FuzzyEligible(content) ==
    \E r \in Runs(toLowerCase(content)) : r[2] - r[1] + 1 >= 3

\* 100, 50 more with the title, 10 a token, 20 more with the title, 25 for
\* every token found; in units of 1/ScoreScale
CompositionScore(doc, query) ==
    LET content == toLowerCase(doc.content)
        q == toLowerCase(query)
        titled == doc.metadata.title # <<>>
        title == IF titled THEN toLowerCase(doc.metadata.title[1]) ELSE <<>>
        tokens == tokensOf(query)
        found(k) == includes(content, tokens[k])
        perToken == [k \in 1..Len(tokens) |->
                        10 * Indicator(found(k))
                        + 20 * Indicator(found(k) /\ titled /\ includes(title, tokens[k]))]
    IN  ScoreScale *
          ( 100 * Indicator(includes(content, q))
            + 50 * Indicator(includes(content, q) /\ titled /\ includes(title, q))
            + SumOver(perToken, Len(tokens))
            + 25 * Indicator(\A k \in 1..Len(tokens) : found(k)) )

\* C21: for a document without updatedAt and without a word of three
\* characters or more, the score of search is 100 for the query in the
\* content, 50 more for the query in the title too, 10 for each query token in
\* the content, 20 more for that token in the title too, and 25 when every
\* query token is in the content.
ScoreIsComposed ==
    (lastOp.op = "search" /\ tokensOf(asked.query) # <<>>)
        => \A i \in 1..Len(documents) :
              (documents[i].metadata.updatedAt = <<>> /\ ~FuzzyEligible(documents[i].content))
                  => scoreOf(documents[i], asked.query, asked.now[1])
                        = CompositionScore(documents[i], asked.query)

\* C21: search scored a titled document of short words that holds one of
\* the three tokens of the query
WitnessScoreIsComposed ==
    /\ lastOp.op = "search"
    /\ Len(tokensOf(asked.query)) = 3
    /\ Len(documents) = 1
    /\ documents[1].metadata.updatedAt = <<>>
    /\ documents[1].metadata.title # <<>>
    /\ ~FuzzyEligible(documents[1].content)
    /\ scoreOf(documents[1], asked.query, asked.now[1]) = (10 + 20) * ScoreScale
    /\ result = <<documents[1].id>>

\* what the pair of a content word and a query token adds to the fuzzy
\* count, in units of 1/ScoreScale
FuzzyPair(word, token) ==
    LET longerLen == Max2(Len(word), Len(token))
        distance == levenshteinDistance(word, token)
    IN  IF Len(word) < 3 \/ Len(token) < 3 THEN 0
        ELSE IF includes(word, token) \/ includes(token, word) THEN ScoreScale
        ELSE IF 10 * (longerLen - distance) > 7 * longerLen
             THEN (ScoreScale * (longerLen - distance)) \div longerLen
        ELSE 0

\* the fuzzy count of a content for the tokens of a query
FuzzyCount(content, tokens) ==
    LET runs == Runs(content)
        ofToken(token) ==
            LET nth(k) == CHOOSE r \in runs : Cardinality({q \in runs : q[1] < r[1]}) = k - 1
                each == [k \in 1..Cardinality(runs) |->
                            FuzzyPair(SubSeq(content, nth(k)[1], nth(k)[2]), token)]
            IN  SumOver(each, Len(each))
        perToken == [k \in 1..Len(tokens) |-> ofToken(tokens[k])]
    IN  SumOver(perToken, Len(tokens))

\* C22: the fuzzy part of the score is 2 times the fuzzy count, which takes,
\* for each query token and each whitespace-delimited word of the lowercased
\* content, both of length 3 or more, 1 when one contains the other, else the
\* similarity (longerLen - levenshtein) / longerLen when it is above 0.7.
FuzzyBonusIsTwicePerMatch ==
    (lastOp.op = "search" /\ tokensOf(asked.query) # <<>>)
        => \A i \in 1..Len(documents) :
              LET content == toLowerCase(documents[i].content)
                  tokens == tokensOf(asked.query)
              IN  scoreOf(documents[i], asked.query, asked.now[1])
                    = phraseScore(content, documents[i].metadata, toLowerCase(asked.query))
                      + sumTokenScores(content, documents[i].metadata, tokens)
                      + coverageScore(content, tokens)
                      + recencyScore(documents[i].metadata, asked.now[1])
                      + 2 * FuzzyCount(content, tokens)

\* C22: search scored a document with a word one substitution away from a
\* query token of four characters: the fuzzy count is 3/4, twice over
WitnessFuzzyBonusIsTwicePerMatch ==
    /\ lastOp.op = "search"
    /\ asked.query = <<"a", "b", "c", "d">>
    /\ Len(documents) = 1
    /\ documents[1].content = <<"a", "b", "x", "d", " ", "e">>
    /\ documents[1].metadata = NoMetadata
    /\ scoreOf(documents[1], asked.query, asked.now[1]) = (2 * 2 * 3 * ScoreScale) \div 4
    /\ result = <<documents[1].id>>

\* C23: the recency bonus of a document with an updatedAt is at least 0 and
\* at most 5 whatever the updatedAt, 5 for a document updated now and 0 for
\* a document 50 days old or older.
RecencyWithinBounds ==
    \A i \in 1..Len(documents), now \in Times :
        documents[i].metadata.updatedAt # <<>>
            => LET bonus == recencyScore(documents[i].metadata, now)
                   age == now - documents[i].metadata.updatedAt[1]
               IN  /\ bonus >= 0
                   /\ bonus <= 5 * ScoreScale
                   /\ age = 0 => bonus = 5 * ScoreScale
                   /\ age >= 50 => bonus = 0

----------------------------------------------------------------------------
(* The order of the document store *)

\* the ids of the store, in iteration order
IdsOf(docs) == [i \in 1..Len(docs) |-> docs[i].id]

\* seq without its entries equal to x
Without(seq, x) == SelectSeq(seq, LAMBDA y : y # x)

\* C24: documents of equal score are returned in the iteration order of the
\* document store, the order of first insertion: addDocument of a stored id
\* keeps the id's place, addDocument of any other id puts it last, and
\* removeDocument takes the id out and keeps the order of the rest.
TieBreakIsInsertionOrder ==
    [][/\ lastOp'.op = "search"
            => \A i, j \in 1..Len(result') :
                  (i < j /\ scoreOf(getDocument(documents, result'[i]), asked'.query, asked'.now[1])
                            = scoreOf(getDocument(documents, result'[j]), asked'.query, asked'.now[1]))
                      => StoredAt(result'[i]) < StoredAt(result'[j])
       /\ \A id \in Ids :
             /\ (lastOp' = Call("addDocument", <<id>>) /\ id \in DocIds(documents))
                   => IdsOf(documents') = IdsOf(documents)
             /\ (lastOp' = Call("addDocument", <<id>>) /\ id \notin DocIds(documents))
                   => IdsOf(documents') = Append(IdsOf(documents), id)
             /\ lastOp' = Call("removeDocument", <<id>>)
                   => IdsOf(documents') = Without(IdsOf(documents), id)]_vars

\* C24: two documents tie, and search returned first the one added first,
\* which is not the one with the smaller id: that one was removed and added
\* again
WitnessTieBreakIsInsertionOrder ==
    /\ lastOp.op = "search"
    /\ asked.limit = <<>>
    /\ IdsOf(documents) = <<2, 1>>
    /\ 1 \in dropped
    /\ documents[1].content # documents[2].content
    /\ ScoreOfId(1, asked.query, asked.now[1]) = ScoreOfId(2, asked.query, asked.now[1])
    /\ result = <<2, 1>>

----------------------------------------------------------------------------
(* What search reads and writes *)

\* C26: search and getStats leave the document store, entries and order,
\* the index tokens and every posting set as they were.
ReadsAreReadOnly ==
    [][lastOp'.op \in {"search", "getStats"}
          => (documents' = documents /\ index' = index)]_vars

\* C26: getStats returned on an index of two documents and some tokens
WitnessReadsAreReadOnly ==
    /\ lastOp.op = "getStats"
    /\ Len(documents) = 2
    /\ index # EmptyIndex
    /\ result.documentsCount = 2
    /\ result.tokensCount = Cardinality(DOMAIN index)

\* the content matches the query through no signal: it holds neither the
\* query nor a token of it nor a word that fuzzy-matches a token
NoSignal(doc, query) ==
    LET content == toLowerCase(doc.content)
        tokens == tokensOf(query)
    IN  /\ ~includes(content, toLowerCase(query))
        /\ \A k \in 1..Len(tokens) : ~includes(content, tokens[k])
        /\ FuzzyCount(content, tokens) = 0

\* C27: for a query with a token, search never returns a stored document
\* whose content matches through no signal, whatever its title and updatedAt.
OnlyMatchesAreReturned ==
    (lastOp.op = "search" /\ tokensOf(asked.query) # <<>>)
        => \A i \in 1..Len(documents) :
              NoSignal(documents[i], asked.query) => documents[i].id \notin SeqRange(result)

\* the index holds an id under a token its stored content no longer has
StalePosting(id, token) ==
    /\ token \in DOMAIN index
    /\ id \in index[token]
    /\ id \in DocIds(documents)
    /\ token \notin SeqRange(tokensOf(getDocument(documents, id).content))

----------------------------------------------------------------------------
(* levenshteinDistance, called on its own *)

LevChars == {"a", "b", "c"}

\* the strings of at most n characters over LevChars
RECURSIVE LevStringsUpTo(_)
LevStringsUpTo(n) ==
    IF n = 0 THEN {<<>>}
    ELSE LET shorter == LevStringsUpTo(n - 1)
         IN  shorter \cup {Append(t, c) : t \in shorter, c \in LevChars}

LevPairs == {[str1 |-> a, str2 |-> b] : a \in LevStringsUpTo(MaxLevLen),
                                        b \in LevStringsUpTo(MaxLevLen)}

LevStart ==
    /\ input \in {<<p>> : p \in LevPairs}
    /\ documents = <<>>
    /\ index = EmptyIndex
    /\ result = <<>>
    /\ lastOp = Call("new", <<>>)
    /\ removed = {}
    /\ before = <<>>
    /\ asked = NotAsked
    /\ known = FALSE
    /\ dropped = {}
    /\ notes = NoNotes
    /\ issued = {}
    /\ debouncer = NewDebouncer
    /\ processor = NewProcessor

LevenshteinDistance ==
    /\ lastOp.op = "new"
    /\ result' = <<levenshteinDistance(input[1].str1, input[1].str2)>>
    /\ lastOp' = Call("levenshteinDistance", <<>>)
    /\ UNCHANGED <<documents, index, removed, before, asked, known, dropped,
                   notes, issued, input, debouncer, processor>>

NextLev == LevenshteinDistance

SpecLev == LevStart /\ [][NextLev]_vars

\* the least number of insertions, deletions and substitutions of one
\* character that turn a into b, by the defining recursion on the first
\* characters: delete a's, insert b's, or keep or substitute
RECURSIVE EditDistance(_, _)
EditDistance(a, b) ==
    IF a = <<>> THEN Len(b)
    ELSE IF b = <<>> THEN Len(a)
    ELSE Min2(Min2(EditDistance(Tail(a), b) + 1, EditDistance(a, Tail(b)) + 1),
              EditDistance(Tail(a), Tail(b)) + (IF Head(a) = Head(b) THEN 0 ELSE 1))

\* a with the characters at i and i + 1 exchanged
SwapAt(a, i) ==
    [k \in 1..Len(a) |-> IF k = i THEN a[i + 1] ELSE IF k = i + 1 THEN a[i] ELSE a[k]]

\* C25: levenshteinDistance(a, b) is the least number of single-character
\* insertions, deletions and substitutions turning a into b; it is 0 exactly
\* when a = b, it is the same in both directions, and it is 2 when b is a
\* with two adjacent distinct characters exchanged.
LevenshteinIsEditDistance ==
    lastOp.op = "levenshteinDistance" =>
        LET a == input[1].str1
            b == input[1].str2
        IN  /\ result[1] = EditDistance(a, b)
            /\ (result[1] = 0) <=> (a = b)
            /\ result[1] = levenshteinDistance(b, a)
            /\ \A i \in 1..(Len(a) - 1) :
                  (a[i] # a[i + 1] /\ b = SwapAt(a, i)) => result[1] = 2

\* the distance of "abc" and "acb", an exchange of adjacent characters
WitnessLevenshteinIsEditDistance ==
    /\ lastOp.op = "levenshteinDistance"
    /\ input[1] = [str1 |-> <<"a", "b", "c">>, str2 |-> <<"a", "c", "b">>]
    /\ result = <<2>>

----------------------------------------------------------------------------
(* The calls on one Debouncer and the firings of its timers *)

\* the timers a pending function will still create when it runs
owed(d) == Cardinality({t \in d.pending : d.made[t].fn = "again"})

Debounce(key, fn) ==
    /\ Len(debouncer.made) + owed(debouncer) + (IF fn = "again" THEN 2 ELSE 1) <= MaxTimers
    /\ debouncer' = debounce(debouncer, key, fn)
    /\ UNCHANGED <<documents, index, result, lastOp, removed, before, asked, known,
                   dropped, notes, issued, input, processor>>

\* the event loop runs the callback of a pending timer
Fire(timer) ==
    /\ timer \in debouncer.pending
    /\ debouncer' = fire(debouncer, timer)
    /\ UNCHANGED <<documents, index, result, lastOp, removed, before, asked, known,
                   dropped, notes, issued, input, processor>>

Cancel(key) ==
    /\ debouncer' = cancel(debouncer, key)
    /\ UNCHANGED <<documents, index, result, lastOp, removed, before, asked, known,
                   dropped, notes, issued, input, processor>>

CancelAll ==
    /\ debouncer' = cancelAll(debouncer)
    /\ UNCHANGED <<documents, index, result, lastOp, removed, before, asked, known,
                   dropped, notes, issued, input, processor>>

NextDebounce ==
    \/ \E key \in Keys, fn \in Fns : Debounce(key, fn)
    \/ \E timer \in 1..MaxTimers : Fire(timer)
    \/ \E key \in Keys : Cancel(key)
    \/ CancelAll

SpecDebounce == Init /\ [][NextDebounce]_vars

\* the pending timers made for key
PendingFor(key) == {t \in debouncer.pending : debouncer.made[t].key = key}

\* the map has an entry for a key exactly when a timer made for it is pending
EntryIffPending ==
    \A key \in Keys : (key \in DOMAIN debouncer.timeouts) <=> (PendingFor(key) # {})

OnePendingPerKey == \A key \in Keys : Cardinality(PendingFor(key)) <= 1

\* no timer that a cancel(key) found made for key and not yet run has run
CancelledNeverRuns == debouncer.barred \cap debouncer.ran = {}

\* C29: the timeouts map has an entry for a key exactly when a timer made
\* for that key is pending, no key has two pending timers, and no function
\* scheduled under a key before a cancel of that key runs after it.
DebouncerTracksItsTimers ==
    /\ EntryIffPending
    /\ OnePendingPerKey
    /\ CancelledNeverRuns

----------------------------------------------------------------------------
(* The calls on one BatchProcessor and the steps of its process loop *)

\* the operations a queued operation will still add when it is called
owedOps(p) ==
    Cardinality({k \in 1..Len(p.queue) : p.kinds[p.queue[k]] = "adds"})

\* add(operation), from any caller and at any point of the loop
Add(kind) ==
    /\ Len(processor.kinds) + owedOps(processor) + (IF kind = "adds" THEN 2 ELSE 1)
          <= MaxOps
    /\ processor' = add(processor, kind)
    /\ UNCHANGED <<documents, index, result, lastOp, removed, before, asked, known,
                   dropped, notes, issued, input, debouncer>>

\* an operation that was called settles
Settle(op) ==
    /\ op \in processor.running
    /\ processor' = settle(processor, op)
    /\ UNCHANGED <<documents, index, result, lastOp, removed, before, asked, known,
                   dropped, notes, issued, input, debouncer>>

\* a slip: the loop does not go on after a batch with a failed operation
AfterBatchUnlessFailed ==
    /\ processor.pc = "batch"
    /\ SeqRange(processor.batch) \cap processor.running = {}
    /\ SeqRange(processor.batch) \cap processor.failed = {}
    /\ processor' = afterBatch(processor)
    /\ UNCHANGED <<documents, index, result, lastOp, removed, before, asked, known,
                   dropped, notes, issued, input, debouncer>>

\* Promise.all resolves when every operation of the batch has settled
AfterBatch ==
    /\ processor.pc = "batch"
    /\ SeqRange(processor.batch) \cap processor.running = {}
    /\ processor' = afterBatch(processor)
    /\ UNCHANGED <<documents, index, result, lastOp, removed, before, asked, known,
                   dropped, notes, issued, input, debouncer>>

\* the timer of the delay fires
AfterDelay ==
    /\ processor.pc = "delay"
    /\ processor' = loop(processor)
    /\ UNCHANGED <<documents, index, result, lastOp, removed, before, asked, known,
                   dropped, notes, issued, input, debouncer>>

NextBatch ==
    \/ \E kind \in OpKinds : Add(kind)
    \/ \E op \in 1..MaxOps : Settle(op)
    \/ AfterBatch
    \/ AfterDelay

SpecBatch == Init /\ [][NextBatch]_vars

\* the event loop runs a continuation that is ready and a timer that is due
SpecBatchFair == SpecBatch /\ WF_vars(AfterBatch) /\ WF_vars(AfterDelay)

RECURSIVE flatten(_)
flatten(seqs) == IF seqs = <<>> THEN <<>> ELSE Head(seqs) \o flatten(Tail(seqs))

\* the operations in the order of their add calls
AddedOps == [k \in 1..Len(processor.kinds) |-> k]

\* at most one loop, no operation called twice or out of order, no batch
\* larger than batchSize, nothing queued while no loop runs
BatchOrder ==
    /\ processor.loops <= 1
    /\ processor.processing <=> (processor.loops = 1)
    /\ flatten(processor.batches) \o processor.queue = AddedOps
    /\ \A k \in 1..Len(processor.batches) :
          Len(processor.batches[k]) \in 1..BatchSize
    /\ ~processor.processing => processor.queue = <<>>

\* every added operation has been called and has settled, the queue is
\* empty and processing is false
BatchDone ==
    /\ flatten(processor.batches) = AddedOps
    /\ processor.running = {}
    /\ processor.queue = <<>>
    /\ ~processor.processing

\* C30: at most one process loop is active, the operations are called once
\* each in the order they were added in batches of at most batchSize, and
\* when the operations that are called keep settling, failed ones included,
\* the processor ends with every operation called, its queue empty and
\* processing false.
BatchProcessorRunsAllOnce ==
    /\ []BatchOrder
    /\ ([]<>(processor.running = {})) => <>[]BatchDone

\* all done after two batches, with a failed operation in the first, an
\* operation added by an operation and an add while the loop was running
WitnessBatchProcessorRunsAllOnce ==
    /\ BatchDone
    /\ Len(processor.batches) >= 2
    /\ processor.failed \cap SeqRange(processor.batches[1]) # {}
    /\ \E k \in 1..Len(processor.kinds) : processor.kinds[k] = "adds"
    /\ Len(processor.kinds) = MaxOps

====
